---------------------------- MODULE Spec2Model ----------------------------
(***************************************************************************)
(* A model of the GolemSP status bot (src/bot.py and src/platforms):      *)
(* the status-report parser, the change detector, the persisted polling   *)
(* loop (monitoring_loop) and the subscriber registry.                    *)
(*                                                                         *)
(* Python values are tagged records [t |-> <type>, v |-> <payload>], so    *)
(* that a dict, a number, a string and None can be told apart the way the  *)
(* interpreter tells them apart (x.get on a non-dict raises, int > str     *)
(* raises, "not x" is the truth value of x).                               *)
(*                                                                         *)
(* Floats are counted in units of 0.0001 (a balance of 10.5 GLM is         *)
(* 105000); the model never mixes an int with a float in one comparison.   *)
(***************************************************************************)
EXTENDS Integers, Sequences, FiniteSets, TLC

(***************************************************************************)
(* Python values                                                           *)
(***************************************************************************)
PyNone == [t |-> "none"]
PyInt(n) == [t |-> "int", v |-> n]
PyFloat(n) == [t |-> "float", v |-> n]
PyStr(s) == [t |-> "str", v |-> s]
\* a str built from a run of tokens of a report line
PyText(toks) == [t |-> "text", v |-> toks]
PyList(s) == [t |-> "list", v |-> s]
\* the str datetime.now().isoformat() gives at instant n
PyTime(n) == [t |-> "time", v |-> n]
\* the str a status command prints: its lines; PyReport(<<>>) is ""
PyReport(lines) == [t |-> "report", v |-> lines]
PyDict(f) == [t |-> "dict", v |-> f]
EmptyDict == PyDict(<<>>)

IsDict(x) == x.t = "dict"
IsNum(x) == x.t \in {"int", "float"}

\* bool(x): None, 0, 0.0, "", [] and {} are false
Truthy(x) ==
    CASE x.t = "none" -> FALSE
      [] x.t \in {"int", "float"} -> x.v # 0
      [] x.t = "str" -> x.v # ""
      [] x.t \in {"text", "list"} -> Len(x.v) > 0
      [] x.t = "dict" -> DOMAIN x.v # {}
      [] x.t = "time" -> TRUE
      [] x.t = "report" -> Len(x.v) > 0

\* d.get(k, default) of a dict d
Get(d, k, default) == IF k \in DOMAIN d.v THEN d.v[k] ELSE default

\* d[k] = val
DictSet(d, k, val) ==
    PyDict([x \in (DOMAIN d.v) \cup {k} |-> IF x = k THEN val ELSE d.v[x]])

(***************************************************************************)
(* Report text.  A report is a sequence of lines and a line a sequence of  *)
(* whitespace-separated tokens: W(s) a word, I(n) an integer literal,      *)
(* F(n) a decimal literal (in units of 0.0001).  A multi-word label the    *)
(* parser searches for ("total processed") is one token.                   *)
(***************************************************************************)
W(s) == [w |-> s]
I(n) == [i |-> n]
F(n) == [f |-> n]

\* <<word, s>>: s is a proper substring of the word.  MOJI_V, MOJI_H and
\* MOJI_C are the three-character sequences the literals of bot.py hold for
\* the vertical, the horizontal and a corner border character; every one of
\* them contains the two-character literal of line 295 (MOJI_PREFIX).
\* BOX_V and BOX_H are the genuine box-drawing characters U+2502, U+2500.
Substrings ==
    { <<"MOJI_V", "MOJI_PREFIX">>, <<"MOJI_H", "MOJI_PREFIX">>,
      <<"MOJI_C", "MOJI_PREFIX">>,
      <<"Wallet-node", "Wallet">>, <<"StatusOK", "Status">>,
      <<"0xLONGADDRESS", "0x">>, <<"0xAB", "0x">>,
      <<"v0.17.6", "DIGIT">>, <<"0xLONGADDRESS", "DIGIT">>, <<"0xAB", "DIGIT">> }

\* s in token
Contains(tok, s) ==
    /\ "w" \in DOMAIN tok
    /\ (tok.w = s \/ <<tok.w, s>> \in Substrings)

\* s in line
HasSub(line, s) == \E k \in 1..Len(line) : Contains(line[k], s)

\* any(char.isdigit() for char in line)
HasDigit(line) ==
    \E k \in 1..Len(line) :
        \/ "i" \in DOMAIN line[k]
        \/ "f" \in DOMAIN line[k]
        \/ Contains(line[k], "DIGIT")

\* line.startswith(s)
StartsWith(line, s) ==
    /\ Len(line) > 0
    /\ "w" \in DOMAIN line[1]
    /\ (line[1].w = s \/ (s = "0x" /\ <<line[1].w, "0x">> \in Substrings))

\* len(token)
CharLen(tok) ==
    IF "w" \in DOMAIN tok
    THEN (IF tok.w = "0xLONGADDRESS" THEN 42 ELSE IF tok.w = "0xAB" THEN 4 ELSE 6)
    ELSE 1

RECURSIVE LineLen(_)
\* len(line) of a stripped line: its tokens and one blank between two
LineLen(line) ==
    IF Len(line) = 0 THEN 0
    ELSE IF Len(line) = 1 THEN CharLen(line[1])
    ELSE CharLen(line[1]) + 1 + LineLen(Tail(line))

\* line.replace(MOJI_V, '').strip()
CleanLine(line) == SelectSeq(line, LAMBDA tok : tok # W("MOJI_V"))

\* line.split(label)[-1].strip(): what follows the last occurrence of label
AfterLast(line, label) ==
    LET hits == {k \in 1..Len(line) : Contains(line[k], label)}
        last == CHOOSE k \in hits : \A j \in hits : j <= k
    IN  IF hits = {} THEN line ELSE SubSeq(line, last + 1, Len(line))

\* int(text) succeeds: text is one integer literal
IntOk(text) == Len(text) = 1 /\ "i" \in DOMAIN text[1]
IntOf(text) == text[1].i

\* float(tok) succeeds: an integer or a decimal literal
FloatOk(tok) == "i" \in DOMAIN tok \/ "f" \in DOMAIN tok
FloatOf(tok) == IF "i" \in DOMAIN tok THEN tok.i * 10000 ELSE tok.f

(***************************************************************************)
(* parse_status_data (bot.py 255-350)                                      *)
(***************************************************************************)
\* data[sub][key] = val
SetField(data, sub, key, val) == DictSet(data, sub, DictSet(data.v[sub], key, val))

\* the section a header line switches to, "" when the line is no header
\* (bot.py 284-292; the parenthesised test is kept as the code has it)
HeaderOf(line, cleaned) ==
    IF HasSub(cleaned, "Status") /\ (HasSub(line, "MOJI_H") \/ HasSub(cleaned, "Status"))
    THEN "status"
    ELSE IF HasSub(cleaned, "Wallet") /\ (HasSub(line, "MOJI_H") \/ HasSub(cleaned, "Wallet"))
    THEN "wallet"
    ELSE IF HasSub(cleaned, "Tasks") /\ (HasSub(line, "MOJI_H") \/ HasSub(cleaned, "Tasks"))
    THEN "tasks"
    ELSE ""

\* bot.py 295: the line holds one of the separator literals
IsSeparator(line) ==
    \/ HasSub(line, "MOJI_H")
    \/ HasSub(line, "MOJI_C")
    \/ HasSub(line, "MOJI_PREFIX")

\* bot.py 299-307
ParseStatusLine(cleaned, data) ==
    IF HasSub(cleaned, "Service") /\ HasSub(cleaned, "running")
    THEN SetField(data, "service", "status", PyStr("running"))
    ELSE IF HasSub(cleaned, "Version") /\ HasDigit(cleaned)
    THEN SetField(data, "service", "version", PyText(AfterLast(cleaned, "Version")))
    ELSE IF HasSub(cleaned, "Node Name")
    THEN SetField(data, "service", "node_name", PyText(AfterLast(cleaned, "Node Name")))
    ELSE IF HasSub(cleaned, "Subnet")
    THEN SetField(data, "service", "subnet", PyText(AfterLast(cleaned, "Subnet")))
    ELSE data

\* bot.py 310-327
ParseWalletLine(cleaned, data) ==
    IF StartsWith(cleaned, "0x") /\ LineLen(cleaned) > 10
    THEN SetField(data, "wallet", "address", PyText(cleaned))
    ELSE IF HasSub(cleaned, "amount (total)")
    THEN LET amount_part == AfterLast(cleaned, "amount (total)")
         IN  IF HasSub(amount_part, "GLM") /\ FloatOk(amount_part[1])
             THEN SetField(data, "wallet", "total_glm", PyFloat(FloatOf(amount_part[1])))
             ELSE data
    ELSE IF StartsWith(cleaned, "pending") /\ HasSub(cleaned, "GLM")
    THEN IF Len(cleaned) >= 2 /\ FloatOk(cleaned[2])
         THEN SetField(data, "wallet", "pending_glm", PyFloat(FloatOf(cleaned[2])))
         ELSE data
    ELSE data

\* one counter of the tasks section: int() of what follows the label
ParseCounter(cleaned, data, label, key) ==
    LET text == AfterLast(cleaned, label)
    IN  IF IntOk(text) THEN SetField(data, "tasks", key, PyInt(IntOf(text))) ELSE data

\* bot.py 330-348
ParseTasksLine(cleaned, data) ==
    IF HasSub(cleaned, "last 1h processed")
    THEN ParseCounter(cleaned, data, "last 1h processed", "last_hour_processed")
    ELSE IF HasSub(cleaned, "last 1h in progress")
    THEN ParseCounter(cleaned, data, "last 1h in progress", "in_progress")
    ELSE IF HasSub(cleaned, "total processed")
    THEN ParseCounter(cleaned, data, "total processed", "total_processed")
    ELSE data

\* one iteration of the loop over the lines (bot.py 278-348):
\* st = [section, data] before the line, the result the same after it
ParseLine(line, st) ==
    LET cleaned == CleanLine(line)
        header == HeaderOf(line, cleaned)
    IN  IF Len(cleaned) = 0 THEN st
        ELSE IF header # "" THEN [section |-> header, data |-> st.data]
        ELSE IF IsSeparator(line) THEN st
        ELSE IF st.section = "status"
        THEN [section |-> st.section, data |-> ParseStatusLine(cleaned, st.data)]
        ELSE IF st.section = "wallet"
        THEN [section |-> st.section, data |-> ParseWalletLine(cleaned, st.data)]
        ELSE IF st.section = "tasks"
        THEN [section |-> st.section, data |-> ParseTasksLine(cleaned, st.data)]
        ELSE st

RECURSIVE ParseLines(_, _)
ParseLines(lines, st) ==
    IF Len(lines) = 0 THEN st
    ELSE ParseLines(Tail(lines), ParseLine(Head(lines), st))

\* the dict of bot.py 269-274, built at instant ts
NewData(ts) ==
    PyDict([timestamp |-> PyTime(ts), service |-> EmptyDict,
            wallet |-> EmptyDict, tasks |-> EmptyDict])

\* parse_status_data(status_output) run at instant ts.  status_output is
\* PyNone or a PyReport; "not status_output" holds of None and of "".
parse_status_data(status_output, ts) ==
    IF ~Truthy(status_output)
    THEN EmptyDict
    ELSE ParseLines(status_output.v, [section |-> "", data |-> NewData(ts)]).data

\* the threshold 0.001 of bot.py 390, in units of 0.0001
EPSILON == 10

(***************************************************************************)
(* detect_changes (bot.py 353-394)                                         *)
(***************************************************************************)
\* the changes dict of bot.py 364-369
ZeroChanges ==
    [new_jobs |-> FALSE, completed_jobs |-> FALSE, payment_received |-> FALSE,
     wallet_balance_change |-> 0]

\* x.get(sub, {}).get(key, default) raises: x or x[sub] has no .get
GetGetRaises(x, sub) == ~IsDict(x) \/ ~IsDict(Get(x, sub, EmptyDict))

\* x.get(sub, {}).get(key, default)
GetGet(x, sub, key, default) == Get(Get(x, sub, EmptyDict), key, default)

\* detect_changes raises (AttributeError of a .get, TypeError of a
\* comparison or subtraction of a number and a non-number)
detect_raises(current_data, previous_data) ==
    /\ Truthy(previous_data)
    /\ \/ GetGetRaises(current_data, "tasks")
       \/ GetGetRaises(previous_data, "tasks")
       \/ ~IsNum(GetGet(current_data, "tasks", "in_progress", PyInt(0)))
       \/ ~IsNum(GetGet(previous_data, "tasks", "in_progress", PyInt(0)))
       \/ ~IsNum(GetGet(current_data, "tasks", "total_processed", PyInt(0)))
       \/ ~IsNum(GetGet(previous_data, "tasks", "total_processed", PyInt(0)))
       \/ GetGetRaises(current_data, "wallet")
       \/ GetGetRaises(previous_data, "wallet")
       \/ ~IsNum(GetGet(current_data, "wallet", "total_glm", PyFloat(0)))
       \/ ~IsNum(GetGet(previous_data, "wallet", "total_glm", PyFloat(0)))

\* the comparison with ">=" in the place of ">" for the balance
Diff_balance_at_least(current_data, previous_data) ==
    LET current_in_progress == GetGet(current_data, "tasks", "in_progress", PyInt(0)).v
        previous_in_progress == GetGet(previous_data, "tasks", "in_progress", PyInt(0)).v
        current_total == GetGet(current_data, "tasks", "total_processed", PyInt(0)).v
        previous_total == GetGet(previous_data, "tasks", "total_processed", PyInt(0)).v
        current_balance == GetGet(current_data, "wallet", "total_glm", PyFloat(0)).v
        previous_balance == GetGet(previous_data, "wallet", "total_glm", PyFloat(0)).v
        balance_change == current_balance - previous_balance
    IN  [new_jobs |-> current_in_progress > previous_in_progress,
         completed_jobs |-> current_total > previous_total,
         payment_received |-> balance_change >= EPSILON,
         wallet_balance_change |->
             IF balance_change >= EPSILON THEN balance_change ELSE 0]

\* the comparison with "!=" in the place of ">" for the tasks processed
Diff_any_change(current_data, previous_data) ==
    LET current_in_progress == GetGet(current_data, "tasks", "in_progress", PyInt(0)).v
        previous_in_progress == GetGet(previous_data, "tasks", "in_progress", PyInt(0)).v
        current_total == GetGet(current_data, "tasks", "total_processed", PyInt(0)).v
        previous_total == GetGet(previous_data, "tasks", "total_processed", PyInt(0)).v
        current_balance == GetGet(current_data, "wallet", "total_glm", PyFloat(0)).v
        previous_balance == GetGet(previous_data, "wallet", "total_glm", PyFloat(0)).v
        balance_change == current_balance - previous_balance
    IN  [new_jobs |-> current_in_progress > previous_in_progress,
         completed_jobs |-> current_total # previous_total,
         payment_received |-> balance_change > EPSILON,
         wallet_balance_change |->
             IF balance_change > EPSILON THEN balance_change ELSE 0]

Diff_at_least(current_data, previous_data) ==
    LET current_in_progress == GetGet(current_data, "tasks", "in_progress", PyInt(0)).v
        previous_in_progress == GetGet(previous_data, "tasks", "in_progress", PyInt(0)).v
        current_total == GetGet(current_data, "tasks", "total_processed", PyInt(0)).v
        previous_total == GetGet(previous_data, "tasks", "total_processed", PyInt(0)).v
        current_balance == GetGet(current_data, "wallet", "total_glm", PyFloat(0)).v
        previous_balance == GetGet(previous_data, "wallet", "total_glm", PyFloat(0)).v
        balance_change == current_balance - previous_balance
    IN  [new_jobs |-> current_in_progress >= previous_in_progress,
         completed_jobs |-> current_total > previous_total,
         payment_received |-> balance_change > EPSILON,
         wallet_balance_change |->
             IF balance_change > EPSILON THEN balance_change ELSE 0]

\* bot.py 374-392: the comparison of two snapshots
Diff(current_data, previous_data) ==
    LET current_in_progress == GetGet(current_data, "tasks", "in_progress", PyInt(0)).v
        previous_in_progress == GetGet(previous_data, "tasks", "in_progress", PyInt(0)).v
        current_total == GetGet(current_data, "tasks", "total_processed", PyInt(0)).v
        previous_total == GetGet(previous_data, "tasks", "total_processed", PyInt(0)).v
        current_balance == GetGet(current_data, "wallet", "total_glm", PyFloat(0)).v
        previous_balance == GetGet(previous_data, "wallet", "total_glm", PyFloat(0)).v
        balance_change == current_balance - previous_balance
    IN  [new_jobs |-> current_in_progress > previous_in_progress,
         completed_jobs |-> current_total > previous_total,
         payment_received |-> balance_change > EPSILON,
         wallet_balance_change |->
             IF balance_change > EPSILON THEN balance_change ELSE 0]

\* detect_changes with "previous_data is None" in the place of
\* "not previous_data": an empty previous snapshot is compared as one of zeros
detect_changes_none_only(current_data, previous_data) ==
    IF previous_data = PyNone THEN ZeroChanges
    ELSE [new_jobs |-> GetGet(current_data, "tasks", "in_progress", PyInt(0)).v
                         > GetGet(previous_data, "tasks", "in_progress", PyInt(0)).v,
          completed_jobs |-> GetGet(current_data, "tasks", "total_processed", PyInt(0)).v
                               > GetGet(previous_data, "tasks", "total_processed", PyInt(0)).v,
          payment_received |-> GetGet(current_data, "wallet", "total_glm", PyFloat(0)).v
                                 - GetGet(previous_data, "wallet", "total_glm", PyFloat(0)).v
                                 > EPSILON,
          wallet_balance_change |->
              IF GetGet(current_data, "wallet", "total_glm", PyFloat(0)).v
                   - GetGet(previous_data, "wallet", "total_glm", PyFloat(0)).v > EPSILON
              THEN GetGet(current_data, "wallet", "total_glm", PyFloat(0)).v
                     - GetGet(previous_data, "wallet", "total_glm", PyFloat(0)).v
              ELSE 0]

\* the value detect_changes returns when it does not raise
detect_changes(current_data, previous_data) ==
    IF ~Truthy(previous_data) THEN ZeroChanges
    ELSE Diff(current_data, previous_data)

\* any(changes.values())
AnyChange(changes) ==
    \/ changes.new_jobs
    \/ changes.completed_jobs
    \/ changes.payment_received
    \/ changes.wallet_balance_change # 0

(***************************************************************************)
(* The secondary platforms (src/platforms)                                 *)
(***************************************************************************)
\* check_render_status with a running worker that reports a job
check_render_status_busy(is_running, ts) ==
    [success |-> TRUE,
     data |-> PyDict([timestamp |-> PyTime(ts),
                      worker |-> PyDict([status |-> PyStr(IF is_running THEN "running" ELSE "stopped")]),
                      jobs |-> PyDict([active |-> PyInt(IF is_running THEN 1 ELSE 0),
                                       completed |-> PyInt(0)]),
                      earnings |-> PyDict([total |-> PyFloat(0), pending |-> PyFloat(0)])])]

\* check_render_status() at instant ts: it always reports success, an idle
\* worker having neither jobs nor earnings (render_network.py 55-77)
check_render_status(is_running, ts) ==
    [success |-> TRUE,
     data |-> PyDict([timestamp |-> PyTime(ts),
                      worker |-> PyDict([status |-> PyStr(IF is_running THEN "running" ELSE "stopped")]),
                      jobs |-> PyDict([active |-> PyInt(0), completed |-> PyInt(0)]),
                      earnings |-> PyDict([total |-> PyFloat(0), pending |-> PyFloat(0)])])]

\* parse_render_status(data) (render_network.py 84-107)
parse_render_status(data) ==
    IF ~Truthy(data) THEN EmptyDict
    ELSE PyDict([worker_status |-> GetGet(data, "worker", "status", PyStr("unknown")),
                 is_running |-> PyInt(IF GetGet(data, "worker", "status", PyNone) = PyStr("running") THEN 1 ELSE 0),
                 active_jobs |-> GetGet(data, "jobs", "active", PyInt(0)),
                 completed_jobs |-> GetGet(data, "jobs", "completed", PyInt(0)),
                 total_earnings |-> GetGet(data, "earnings", "total", PyFloat(0)),
                 pending_earnings |-> GetGet(data, "earnings", "pending", PyFloat(0)),
                 timestamp |-> Get(data, "timestamp", PyNone)])

\* check_ai_training_status() at instant ts (ai_training.py 58-90), with
\* TOGETHER_AI_ENABLED and AKASH_NODE_ENABLED at their default, false
check_ai_training_status(is_running, ts) ==
    [success |-> TRUE,
     data |-> PyDict([timestamp |-> PyTime(ts),
                      worker |-> PyDict([status |-> PyStr(IF is_running THEN "running" ELSE "stopped")]),
                      platforms |-> PyDict([together_ai |-> PyDict([enabled |-> PyInt(0)]),
                                            akash |-> PyDict([enabled |-> PyInt(0)])]),
                      jobs |-> PyDict([active |-> PyInt(0), completed |-> PyInt(0)]),
                      earnings |-> PyDict([total |-> PyFloat(0), pending |-> PyFloat(0)])])]

\* parse_ai_training_status(data) (ai_training.py 97-133)
parse_ai_training_status(data) ==
    IF ~Truthy(data) THEN EmptyDict
    ELSE PyDict([worker_status |-> GetGet(data, "worker", "status", PyStr("unknown")),
                 is_running |-> PyInt(IF GetGet(data, "worker", "status", PyNone) = PyStr("running") THEN 1 ELSE 0),
                 active_platforms |-> PyList(<<>>),
                 together_ai_enabled |-> GetGet(Get(data, "platforms", EmptyDict), "together_ai", "enabled", PyInt(0)),
                 akash_enabled |-> GetGet(Get(data, "platforms", EmptyDict), "akash", "enabled", PyInt(0)),
                 active_jobs |-> GetGet(data, "jobs", "active", PyInt(0)),
                 completed_jobs |-> GetGet(data, "jobs", "completed", PyInt(0)),
                 total_earnings |-> GetGet(data, "earnings", "total", PyFloat(0)),
                 pending_earnings |-> GetGet(data, "earnings", "pending", PyFloat(0)),
                 timestamp |-> Get(data, "timestamp", PyNone)])

(***************************************************************************)
(* One cycle of monitoring_loop up to its first await (bot.py 778-889)     *)
(***************************************************************************)
Message(platform, kind, count, current) ==
    [platform |-> platform, kind |-> kind, count |-> count, current |-> current]

\* the count with the current value in the place of the difference
JobsDelta_current(current_data, golem_previous, key) ==
    GetGet(current_data, "tasks", key, PyInt(0)).v

\* bot.py 791-793 and 801-803: the count a message of the primary node reports
JobsDelta(current_data, golem_previous, key) ==
    GetGet(current_data, "tasks", key, PyInt(0)).v
        - GetGet(golem_previous, "tasks", key, PyInt(0)).v

\* bot.py 789-817: the messages of the primary node, one per flag
GolemMessages(current_data, golem_previous, changes, users) ==
    IF AnyChange(changes) /\ users # {}
    THEN (IF changes.new_jobs
          THEN << Message("golem", "new_jobs",
                          JobsDelta(current_data, golem_previous, "in_progress"),
                          GetGet(current_data, "tasks", "in_progress", PyInt(0)).v) >>
          ELSE << >>)
         \o
         (IF changes.completed_jobs
          THEN << Message("golem", "completed_jobs",
                          JobsDelta(current_data, golem_previous, "total_processed"),
                          GetGet(current_data, "tasks", "total_processed", PyInt(0)).v) >>
          ELSE << >>)
         \o
         (IF changes.payment_received
          THEN << Message("golem", "payment_received",
                          changes.wallet_balance_change,
                          GetGet(current_data, "wallet", "total_glm", PyFloat(0)).v) >>
          ELSE << >>)
    ELSE << >>

\* a primary node's part that forgets the stored snapshot when the status
\* check fails
GolemPart_forget_on_failure(st, check, users, ts) ==
    IF ~check.success
    THEN [raised |-> FALSE, previous_state |-> DictSet(st, "golem", EmptyDict),
          msgs |-> << >>, current |-> PyNone]
    ELSE
      LET current_data == parse_status_data(check.output, ts)
          golem_previous == Get(st, "golem", EmptyDict)
      IN  IF detect_raises(current_data, golem_previous)
          THEN [raised |-> TRUE, previous_state |-> st, msgs |-> << >>,
                current |-> current_data]
          ELSE [raised |-> FALSE,
                previous_state |-> DictSet(st, "golem", current_data),
                msgs |-> GolemMessages(current_data, golem_previous,
                                       detect_changes(current_data, golem_previous), users),
                current |-> current_data]

\* bot.py 780-822: the primary node's part of a cycle.  check is what
\* run_golemsp_status returned, st the loop's previous_state.
GolemPart(st, check, users, ts) ==
    IF ~check.success
    THEN [raised |-> FALSE, previous_state |-> st, msgs |-> << >>, current |-> PyNone]
    ELSE
      LET current_data == parse_status_data(check.output, ts)
          golem_previous == Get(st, "golem", EmptyDict)
      IN  IF detect_raises(current_data, golem_previous)
          THEN [raised |-> TRUE, previous_state |-> st, msgs |-> << >>,
                current |-> current_data]
          ELSE [raised |-> FALSE,
                previous_state |-> DictSet(st, "golem", current_data),
                msgs |-> GolemMessages(current_data, golem_previous,
                                       detect_changes(current_data, golem_previous), users),
                current |-> current_data]

\* bot.py 831-834 or 863-866 raise: the previous state of the platform has
\* no .get; 836/844 or 868/876: a stored value is no number
PlatformRaises(previous) ==
    \/ ~IsDict(previous)
    \/ ~IsNum(Get(previous, "total_earnings", PyFloat(0)))
    \/ ~IsNum(Get(previous, "active_jobs", PyInt(0)))

\* bot.py 836-850 and 868-882: the messages of a secondary platform
PlatformMessages(platform, previous, current, users) ==
    LET prev_earnings == Get(previous, "total_earnings", PyFloat(0)).v
        curr_earnings == Get(current, "total_earnings", PyFloat(0)).v
        prev_jobs == Get(previous, "active_jobs", PyInt(0)).v
        curr_jobs == Get(current, "active_jobs", PyInt(0)).v
    IN  (IF curr_earnings > prev_earnings /\ users # {}
         THEN << Message(platform, "earnings", curr_earnings - prev_earnings, curr_earnings) >>
         ELSE << >>)
        \o
        (IF curr_jobs > prev_jobs /\ users # {}
         THEN << Message(platform, "new_jobs", curr_jobs - prev_jobs, curr_jobs) >>
         ELSE << >>)

\* bot.py 825-854 (Render) and 857-886 (AI training): a secondary platform's
\* part of a cycle.  enabled is its configuration flag, check what its
\* status check returned, parsed the parsed data, previous its stored state.
PlatformPart(platform, enabled, check, parsed, previous, users) ==
    IF ~enabled \/ ~check.success
    THEN [raised |-> FALSE, state |-> previous, msgs |-> << >>]
    ELSE IF PlatformRaises(previous)
    THEN [raised |-> TRUE, state |-> previous,
          \* the earnings message is appended before line 844 (876) raises
          msgs |-> IF IsDict(previous) /\ IsNum(Get(previous, "total_earnings", PyFloat(0)))
                   THEN SubSeq(PlatformMessages(platform,
                                   PyDict([total_earnings |-> Get(previous, "total_earnings", PyFloat(0))]),
                                   parsed, users), 1, 1)
                   ELSE << >>]
    ELSE [raised |-> FALSE, state |-> parsed,
          msgs |-> PlatformMessages(platform, previous, parsed, users)]

(***************************************************************************)
(* Bounds of the model                                                     *)
(***************************************************************************)
\* chat ids are 1..MaxUsers
MaxUsers == 1
\* the task counters a report of the scheduler's runs prints are 0..MaxJobs
MaxJobs == 1
\* instants are 0..MaxTime; the clock stops at MaxTime
MaxTime == 1
\* at most MaxWriteFaults writes of a file fail in a run
MaxWriteFaults == 1
\* the history of the primary node's reports holds MaxPolls of them
MaxPolls == 3

Users == 1..MaxUsers

\* a report without borders: the tasks and the wallet section
MkReport(ip, tp, bal) ==
    PyReport(<< <<W("Tasks")>>,
                <<W("last 1h in progress"), I(ip)>>,
                <<W("total processed"), I(tp)>>,
                <<W("Wallet")>>,
                <<W("amount (total)"), F(bal), W("GLM")>> >>)

\* what "golemsp status" prints in the scheduler's runs: nothing, or a report
\* (a payment of twice the threshold comes with every task processed)
SchedReports ==
    {PyReport(<< >>)}
    \cup UNION {{MkReport(ip, tp, tp * 2 * EPSILON) : tp \in 0..ip} : ip \in 0..MaxJobs}

\* what run_golemsp_status returns (bot.py 120-166): (False, None, error)
\* or (True, stdout, None)
GolemOutcomes ==
    {[success |-> FALSE, output |-> PyNone]}
    \cup {[success |-> TRUE, output |-> r] : r \in SchedReports}

(***************************************************************************)
(* The two persisted documents.  A file is missing, holds text json.load   *)
(* rejects ("corrupt": hand-edited, or cut short by a failed write), or    *)
(* holds a JSON document.                                                  *)
(***************************************************************************)
FileMissing == [kind |-> "missing"]
FileCorrupt == [kind |-> "corrupt"]
FileJson(doc) == [kind |-> "json", doc |-> doc]

\* load_previous_state (bot.py 169-183)
load_previous_state(file) == IF file.kind = "json" THEN file.doc ELSE EmptyDict

\* list(registered_users) (bot.py 226): the members of a set, each once, in
\* an order the hashing decides
ListsOf(members) ==
    {l \in UNION {[1..n -> members] : n \in {Cardinality(members)}} :
        \A i, j \in DOMAIN l : l[i] = l[j] => i = j}

\* a set(user_list) that drops the head of the list
SetOf_tail(user_list) == {user_list[i] : i \in DOMAIN user_list \ {1}}

\* set(user_list) (bot.py 212)
SetOf(user_list) == {user_list[i] : i \in DOMAIN user_list}

\* what load_registered_users leaves in registered_users (bot.py 200-217);
\* the users document is a list of chat ids
load_registered_users(file, users) ==
    IF file.kind = "json" THEN SetOf(file.doc)
    ELSE IF file.kind = "corrupt" THEN {}
    ELSE users

\* the state files a process may find at its start: none, an unparseable
\* one, and hand-edited documents (a list; an empty mapping; a stored
\* counter that is a string; a Render entry that is a list; a Render entry
\* with a negative job count), beside a document the loop wrote itself
InitialStateFiles ==
    { FileMissing, FileCorrupt,
      FileJson(PyList(<< >>)),
      FileJson(EmptyDict),
      FileJson(PyDict([golem |-> PyDict([timestamp |-> PyTime(0),
                                         tasks |-> PyDict([in_progress |-> PyStr("two")])])])),
      FileJson(PyDict([golem |-> parse_status_data(MkReport(0, 0, 0), 0),
                       render |-> PyList(<< >>)])),
      FileJson(PyDict([golem |-> parse_status_data(MkReport(0, 0, 0), 0),
                       render |-> PyDict([active_jobs |-> PyInt(-1)]),
                       ai_training |-> EmptyDict])) }

(***************************************************************************)
(* State                                                                   *)
(***************************************************************************)
VARIABLES
    \* configuration, read from the environment at import (bot.py 36-43)
    MONITORING_ENABLED, RENDER_NETWORK_ENABLED, AI_TRAINING_ENABLED,
    \* the files STATE_FILE and USERS_FILE (bot.py 38-39), and the disk that
    \* holds them: "sound", or "failing" when a write of a file can fail
    state_file, users_file, disk,
    \* the clock datetime.now() reads, and the number of failed writes so far
    now, write_faults,
    \* the process: "off" or "up", and its global registered_users (bot.py 48)
    proc, registered_users,
    \* the monitoring tasks created by further calls of start_monitoring in
    \* the process that have not ended: their number
    other_tasks,
    \* the monitoring task: where it stands, and the locals of monitoring_loop
    pc, previous_state, previous_render_state, previous_ai_state,
    notification_messages,
    \* the loops of bot.py 890-891: the chat ids of registered_users.copy()
    \* still to come, the current one, the index of the next message
    users_copy, chat_id, msg_ix,
    \* history of the process: the platforms that had no stored snapshot when
    \* the state was loaded and have not been polled with success since; what
    \* the current cycle did; the sends it attempted
    fresh, cyc, attempts,
    \* history across restarts: of the primary node's reports and of the
    \* notifications delivered about them (kept by SpecCrash), and of the
    \* registry commands (kept by SpecMain)
    hist,
    \* the inputs and the result of one evaluation of detect_changes
    dc,
    \* the inputs and the results of one evaluation of the parser and of the
    \* formatters
    ps,
    \* the last answer a "check now" command sent to its chat
    reply

vars ==
    << MONITORING_ENABLED, RENDER_NETWORK_ENABLED, AI_TRAINING_ENABLED,
       state_file, users_file, disk, now, write_faults, proc, registered_users,
       other_tasks, pc, previous_state, previous_render_state, previous_ai_state,
       notification_messages, users_copy, chat_id, msg_ix, fresh, cyc, attempts,
       hist, dc, ps, reply >>

config == << MONITORING_ENABLED, RENDER_NETWORK_ENABLED, AI_TRAINING_ENABLED, disk >>
files == << state_file, users_file, write_faults >>
locals == << previous_state, previous_render_state, previous_ai_state,
             notification_messages, users_copy, chat_id, msg_ix >>
history == << fresh, cyc, attempts >>

Platforms == {"golem", "render", "ai_training"}
Kinds == {"new_jobs", "completed_jobs", "payment_received"}

\* no cycle has run yet
NoCycle ==
    [golem |-> "none", render |-> "none", ai_training |-> "none",
     golem_previous |-> PyNone, golem_current |-> PyNone,
     render_current |-> PyNone, ai_current |-> PyNone,
     flags |-> {}, first |-> {}, users |-> {}, saved |-> "no", rejected |-> << >>]

NoAttempts == [u \in Users |-> << >>]
DcIdle == [phase |-> "idle"]
PsIdle == [phase |-> "idle"]
NoReply == [chat |-> 0]

NoHistory ==
    [n |-> 0, last |-> PyNone, rises |-> [k \in Kinds |-> {}],
     mem |-> 0, disk |-> 0, from |-> 0,
     told |-> [u \in Users |-> [k \in Kinds |-> {}]], twice |-> {},
     acts |-> << >>, ok |-> TRUE, ended |-> FALSE, reloaded |-> FALSE,
     before |-> {}, cut |-> 0]

\* the memory of a process that has not started
MemoryInit ==
    /\ proc = "off"
    /\ registered_users = {}
    /\ other_tasks = 0
    /\ pc = "none"
    /\ previous_state = EmptyDict
    /\ previous_render_state = EmptyDict
    /\ previous_ai_state = EmptyDict
    /\ notification_messages = << >>
    /\ users_copy = {}
    /\ chat_id = 0
    /\ msg_ix = 0
    /\ fresh = {}
    /\ cyc = NoCycle
    /\ attempts = NoAttempts

Init ==
    /\ MONITORING_ENABLED \in BOOLEAN
    /\ RENDER_NETWORK_ENABLED \in BOOLEAN
    /\ AI_TRAINING_ENABLED \in BOOLEAN
    /\ state_file \in InitialStateFiles
    /\ users_file \in {FileMissing, FileJson(<< 1 >>)}
    /\ disk = "sound"
    /\ now = 0
    /\ ps = PsIdle
    /\ reply = NoReply
    /\ write_faults = 0
    /\ MemoryInit
    /\ hist = NoHistory
    /\ dc = DcIdle

(***************************************************************************)
(* The registry and the start of the process                               *)
(***************************************************************************)
\* what a write of document doc leaves in a file that held old: the write
\* succeeds, open() fails (the file is untouched), or the dump fails after
\* open() truncated the file (bot.py 193-197, 224-228)
WriteResults(old, doc, faults) ==
    IF disk = "failing" /\ faults < MaxWriteFaults THEN {FileJson(doc), old, FileCorrupt}
    ELSE {FileJson(doc)}

\* the count of failed writes after a write of doc left result
CountFault(result, doc, faults) == IF result = FileJson(doc) THEN faults ELSE faults + 1

\* save_registered_users (bot.py 220-228): the list of the members is dumped
save_registered_users(members) ==
    \E user_list \in ListsOf(members) :
        /\ users_file' \in WriteResults(users_file, user_list, write_faults)
        /\ write_faults' = CountFault(users_file', user_list, write_faults)

\* the thread of the event loop is inside run_golemsp_status, called by the
\* monitoring task without await (bot.py 780, 141-148): no handler runs
Blocked == pc = "check"

\* main (bot.py 1231-1271): load_registered_users, then the application runs
main ==
    /\ proc = "off"
    /\ proc' = "up"
    /\ registered_users' = load_registered_users(users_file, registered_users)
    /\ UNCHANGED << config, ps, reply, other_tasks, files, now, pc, locals, history, dc >>

Main == main /\ UNCHANGED hist

\* register_user (bot.py 231-240), reached from /start and
\* /enable_notifications; a handler runs when the event loop is free
register_user(u) ==
    /\ proc = "up"
    /\ ~Blocked
    /\ registered_users' = registered_users \cup {u}
    /\ save_registered_users(registered_users')
    /\ UNCHANGED << config, ps, reply, other_tasks, state_file, now, proc, pc, locals, history, dc >>

Register(u) == register_user(u) /\ UNCHANGED hist

\* unregister_user (bot.py 243-252), reached from /disable_notifications
unregister_user(u) ==
    /\ proc = "up"
    /\ ~Blocked
    /\ registered_users' = registered_users \ {u}
    /\ save_registered_users(registered_users')
    /\ UNCHANGED << config, ps, reply, other_tasks, state_file, now, proc, pc, locals, history, dc >>

Unregister(u) == unregister_user(u) /\ UNCHANGED hist

\* start_monitoring (bot.py 1220-1228): the task is created when monitoring
\* is enabled.  main (bot.py 1231-1271) holds no call of it; the step is the
\* call a start-up hook of the application makes, once in a process.
StartMonitoring ==
    /\ proc = "up"
    /\ pc = "none"
    /\ pc' = IF MONITORING_ENABLED THEN "start" ELSE "unscheduled"
    /\ UNCHANGED << config, ps, reply, other_tasks, files, now, proc, registered_users, locals, history,
                    hist, dc >>

(***************************************************************************)
(* monitoring_loop (bot.py 758-904)                                        *)
(***************************************************************************)
\* the platforms a loaded state holds no snapshot of
NoSnapshot(loaded) ==
    {p \in Platforms : ~Truthy(Get(loaded, p, EmptyDict))}

\* bot.py 766-769: the state is loaded; the two .get of lines 768-769 stand
\* outside the loop's try, so a document that is no mapping ends the task
Load ==
    /\ pc = "start"
    /\ LET loaded == load_previous_state(state_file)
       IN  /\ previous_state' = loaded
           /\ IF IsDict(loaded)
              THEN /\ previous_render_state' = Get(loaded, "render", EmptyDict)
                   /\ previous_ai_state' = Get(loaded, "ai_training", EmptyDict)
                   /\ fresh' = NoSnapshot(loaded)
                   /\ pc' = "top"
              ELSE /\ UNCHANGED << previous_render_state, previous_ai_state, fresh >>
                   /\ pc' = "dead"
    /\ UNCHANGED << config, ps, reply, other_tasks, files, now, proc, registered_users,
                    notification_messages, users_copy, chat_id, msg_ix, cyc,
                    attempts, dc >>

\* how a part of the cycle ended, for the history
Outcome(reached, enabled, success, raised) ==
    IF ~enabled THEN "off"
    ELSE IF ~reached THEN "skipped"
    ELSE IF ~success THEN "fail"
    ELSE IF raised THEN "raised"
    ELSE "ok"

\* the flags of a ChangeSet that are set
FlagsOf(changes) ==
    {k \in Kinds : (k = "new_jobs" /\ changes.new_jobs)
                   \/ (k = "completed_jobs" /\ changes.completed_jobs)
                   \/ (k = "payment_received" /\ changes.payment_received)}

\* bot.py 772-780: the head of the loop.  The flag is tested; when it is
\* set the list of messages is emptied and run_golemsp_status is called,
\* which runs the command with subprocess.run (bot.py 141-148): the call is
\* not awaited, so the thread of the event loop stays in it until the
\* command ends or its timeout passes.
BeginCycle ==
    /\ pc = "top"
    /\ IF ~MONITORING_ENABLED
       THEN /\ pc' = "stopped"
            /\ UNCHANGED notification_messages
       ELSE /\ pc' = "check"
            /\ notification_messages' = << >>
    /\ UNCHANGED << config, ps, reply, other_tasks, files, now, proc, registered_users,
                    previous_state, previous_render_state, previous_ai_state,
                    users_copy, chat_id, msg_ix, history, hist, dc >>

\* bot.py 780-890: the command has ended; the three platforms, and the
\* choice between the deliveries and the save.  None of it awaits, so it is
\* one step with the end of the command.  check is what run_golemsp_status
\* returned; rr and ar say whether the Render and the AI training worker
\* are found running.
Poll(check, rr, ar) ==
    /\ pc = "check"
    /\   \E g \in {GolemPart(previous_state, check, registered_users, now)},
            golem_previous \in {Get(previous_state, "golem", EmptyDict)},
            rcheck \in {check_render_status(rr, now)},
            acheck \in {check_ai_training_status(ar, now)} :
         \E rparsed \in {parse_render_status(rcheck.data)},
            aparsed \in {parse_ai_training_status(acheck.data)} :
         \E r \in {IF g.raised
                   THEN [raised |-> FALSE, state |-> previous_render_state, msgs |-> << >>]
                   ELSE PlatformPart("render", RENDER_NETWORK_ENABLED, rcheck, rparsed,
                                     previous_render_state, registered_users)} :
         \E a \in {IF g.raised \/ r.raised
                   THEN [raised |-> FALSE, state |-> previous_ai_state, msgs |-> << >>]
                   ELSE PlatformPart("ai_training", AI_TRAINING_ENABLED, acheck, aparsed,
                                     previous_ai_state, registered_users)} :
         \E outcome \in {[golem |-> Outcome(TRUE, TRUE, check.success, g.raised),
                          render |-> Outcome(~g.raised, RENDER_NETWORK_ENABLED,
                                             rcheck.success, r.raised),
                          ai_training |-> Outcome(~g.raised /\ ~r.raised, AI_TRAINING_ENABLED,
                                                  acheck.success, a.raised)]} :
         LET raised == g.raised \/ r.raised \/ a.raised
             msgs == g.msgs \o r.msgs \o a.msgs
             polled == {p \in Platforms : outcome[p] \in {"ok", "raised"}}
         IN  /\ previous_state' = g.previous_state
             /\ previous_render_state' = r.state
             /\ previous_ai_state' = a.state
             /\ notification_messages' = msgs
             /\ attempts' = NoAttempts
             /\ fresh' = fresh \ polled
             /\ cyc' = [golem |-> outcome.golem,
                        render |-> outcome.render,
                        ai_training |-> outcome.ai_training,
                        golem_previous |-> IF check.success THEN PyNone ELSE golem_previous,
                        golem_current |-> g.current,
                        render_current |-> IF outcome.render \in {"ok", "raised"}
                                           THEN rparsed ELSE PyNone,
                        ai_current |-> IF outcome.ai_training \in {"ok", "raised"}
                                       THEN aparsed ELSE PyNone,
                        flags |-> IF outcome.golem = "ok"
                                  THEN FlagsOf(detect_changes(g.current, golem_previous))
                                  ELSE {},
                        first |-> fresh \cap polled,
                        users |-> registered_users,
                        saved |-> "no",
                        rejected |-> << >>]
             /\ IF raised
                THEN \* bot.py 900-901: logged; the wait of line 904 follows
                     /\ pc' = "sleep"
                     /\ UNCHANGED << users_copy, chat_id, msg_ix >>
                ELSE IF msgs # << >> /\ registered_users # {}
                THEN \* bot.py 889-891: the first chat id of the copy
                     /\ pc' = "notify"
                     /\ chat_id' \in registered_users
                     /\ users_copy' = registered_users \ {chat_id'}
                     /\ msg_ix' = 1
                ELSE /\ pc' = "save"
                     /\ UNCHANGED << users_copy, chat_id, msg_ix >>
    /\ UNCHANGED << config, ps, reply, other_tasks, files, now, proc, registered_users, dc >>

\* a delivery whose rejected send leaves the two loops: the error reaches
\* the except of the cycle and the wait follows
Deliver_abort_on_reject(accepted) ==
    /\ pc = "notify"
    /\ attempts' = [attempts EXCEPT ![chat_id] = Append(@, msg_ix)]
    /\ cyc' = [cyc EXCEPT !.rejected = IF accepted \/ @ # << >> THEN @
                                        ELSE << chat_id, msg_ix >>]
    /\ IF ~accepted
       THEN /\ pc' = "sleep"
            /\ chat_id' = 0
            /\ msg_ix' = 0
            /\ users_copy' = {}
       ELSE IF msg_ix < Len(notification_messages)
       THEN /\ msg_ix' = msg_ix + 1
            /\ UNCHANGED << pc, chat_id, users_copy >>
       ELSE IF users_copy # {}
       THEN /\ chat_id' \in users_copy
            /\ users_copy' = users_copy \ {chat_id'}
            /\ msg_ix' = 1
            /\ UNCHANGED pc
       ELSE /\ pc' = "save"
            /\ chat_id' = 0
            /\ msg_ix' = 0
            /\ UNCHANGED users_copy
    /\ UNCHANGED << config, ps, reply, other_tasks, files, now, proc, registered_users,
                    previous_state, previous_render_state, previous_ai_state,
                    notification_messages, fresh, dc >>

\* bot.py 892-893: one send_notification (the transport accepts the message
\* or rejects it; send_notification catches the error and logs either way,
\* bot.py 747-755; the first send of the cycle the transport rejected is kept
\* in cyc.rejected) and the short sleep after it, then the next message, the
\* next chat id, or the save
Deliver(accepted) ==
    /\ pc = "notify"
    /\ attempts' = [attempts EXCEPT ![chat_id] = Append(@, msg_ix)]
    /\ cyc' = [cyc EXCEPT !.rejected = IF accepted \/ @ # << >> THEN @
                                        ELSE << chat_id, msg_ix >>]
    /\ IF msg_ix < Len(notification_messages)
       THEN /\ msg_ix' = msg_ix + 1
            /\ UNCHANGED << pc, chat_id, users_copy >>
       ELSE IF users_copy # {}
       THEN /\ chat_id' \in users_copy
            /\ users_copy' = users_copy \ {chat_id'}
            /\ msg_ix' = 1
            /\ UNCHANGED pc
       ELSE \* both loops are over
            /\ pc' = "save"
            /\ chat_id' = 0
            /\ msg_ix' = 0
            /\ UNCHANGED users_copy
    /\ UNCHANGED << config, ps, reply, other_tasks, files, now, proc, registered_users,
                    previous_state, previous_render_state, previous_ai_state,
                    notification_messages, fresh, dc >>

\* bot.py 895-898: the two secondary states are put into previous_state and
\* the whole is written; a failed write is logged (bot.py 196-197)
Save ==
    /\ pc = "save"
    /\ previous_state' = DictSet(DictSet(previous_state, "render", previous_render_state),
                                 "ai_training", previous_ai_state)
    /\ state_file' \in WriteResults(state_file, previous_state', write_faults)
    /\ write_faults' = CountFault(state_file', previous_state', write_faults)
    /\ cyc' = [cyc EXCEPT !.saved = IF state_file' = FileJson(previous_state')
                                     THEN "ok" ELSE "failed"]
    /\ pc' = "sleep"
    /\ UNCHANGED << config, ps, reply, other_tasks, users_file, now, proc, registered_users,
                    previous_render_state, previous_ai_state,
                    notification_messages, users_copy, chat_id, msg_ix,
                    fresh, attempts, dc >>

\* bot.py 904: the wait between two cycles; the history of the cycle ends
Sleep ==
    /\ pc = "sleep"
    /\ pc' = "top"
    /\ now' = IF now < MaxTime THEN now + 1 ELSE now
    /\ cyc' = NoCycle
    /\ attempts' = NoAttempts
    /\ UNCHANGED << config, ps, reply, other_tasks, files, proc, registered_users, locals, fresh, hist, dc >>

\* whether a worker process is found running, asked only of an enabled platform
WorkerStates(enabled) == IF enabled THEN BOOLEAN ELSE {FALSE}

Next ==
    \/ Main
    \/ \E u \in Users : Register(u)
    \/ \E u \in Users : Unregister(u)
    \/ StartMonitoring
    \/ Load /\ UNCHANGED hist
    \/ BeginCycle
    \/ \E check \in GolemOutcomes :
         \E rr \in WorkerStates(RENDER_NETWORK_ENABLED), ar \in WorkerStates(AI_TRAINING_ENABLED) :
            Poll(check, rr, ar) /\ UNCHANGED hist
    \/ \E accepted \in BOOLEAN : Deliver(accepted) /\ UNCHANGED hist
    \/ Save /\ UNCHANGED hist
    \/ Sleep

Spec == Init /\ [][Next]_vars

(***************************************************************************)
(* start_monitoring called more than once in a process                     *)
(***************************************************************************)
\* start_monitoring is called at most MaxStarts more times after its first
MaxStarts == 1

\* the positions of a monitoring task that has not ended
Running == {"start", "top", "check", "notify", "save", "sleep"}

\* the monitoring loops that run in the process
ActiveLoops == (IF pc \in Running THEN 1 ELSE 0) + other_tasks

\* a further call of start_monitoring (bot.py 1220-1228): the flag is the
\* only test, so create_task runs again and monitoring_task is overwritten
\* while the task it named keeps running.  The new task goes on past its
\* load (bot.py 766-769) exactly when the first would; its cycles are those
\* of the first and are not followed here.
StartAgain ==
    /\ proc = "up"
    /\ ~Blocked
    /\ pc \notin {"none", "unscheduled"}
    /\ other_tasks < MaxStarts
    /\ IsDict(load_previous_state(state_file))
    /\ other_tasks' = other_tasks + 1
    /\ UNCHANGED << config, ps, reply, files, now, proc, registered_users, pc, locals, history,
                    hist, dc >>

NextStarts ==
    \/ Next
    \/ StartAgain

SpecStarts == Init /\ [][NextStarts]_vars

(***************************************************************************)
(* The "check now" commands beside the monitoring loop                     *)
(***************************************************************************)
\* what a "check now" command answers to chat u.  what is "status"
\* (status_command, bot.py 1074-1098, and the three section buttons of
\* handle_keyboard_button, bot.py 957-967: the report, formatted) or "all"
\* (all_status_command, bot.py 1159-1217, and the button of bot.py
\* 1013-1058: the balance and the active tasks of the parsed report, and
\* the zero counters of the enabled secondary platforms).
AnswerOf(u, what, check) ==
    IF ~check.success
    THEN [chat |-> u, what |-> what, error |-> TRUE]
    ELSE IF what = "status"
    THEN [chat |-> u, what |-> what, error |-> FALSE, report |-> check.output]
    ELSE LET golem_data == parse_status_data(check.output, now)
         IN  [chat |-> u, what |-> what, error |-> FALSE,
              balance |-> GetGet(golem_data, "wallet", "total_glm", PyFloat(0)),
              tasks |-> GetGet(golem_data, "tasks", "in_progress", PyInt(0)),
              render |-> RENDER_NETWORK_ENABLED,
              ai_training |-> AI_TRAINING_ENABLED]

\* a "check now" that stores the snapshot it parsed and writes the state
CheckNow_storing(u, what, check) ==
    /\ proc = "up"
    /\ ~Blocked
    /\ reply' = AnswerOf(u, what, check)
    /\ previous_state' = IF check.success
                         THEN DictSet(previous_state, "golem",
                                      parse_status_data(check.output, now))
                         ELSE previous_state
    /\ state_file' = IF check.success THEN FileJson(previous_state') ELSE state_file
    /\ UNCHANGED << config, ps, users_file, write_faults, other_tasks, now, proc,
                    registered_users, pc, previous_render_state, previous_ai_state,
                    notification_messages, users_copy, chat_id, msg_ix,
                    history, hist, dc >>

\* a "check now" command of chat u: run_golemsp_status is called (check is
\* what it returns), the answer is built and sent as the reply to the
\* command.  The handlers assign no global and call neither
\* detect_changes, save_current_state nor send_notification.
CheckNow(u, what, check) ==
    /\ proc = "up"
    /\ ~Blocked
    /\ reply' = AnswerOf(u, what, check)
    /\ UNCHANGED << config, ps, files, other_tasks, now, proc, registered_users, pc,
                    locals, history, hist, dc >>

\* one node with its monitoring loop, one subscriber on file, and a state
\* file that holds a snapshot of the node
InitCommands ==
    /\ MONITORING_ENABLED = TRUE
    /\ RENDER_NETWORK_ENABLED = FALSE
    /\ AI_TRAINING_ENABLED = FALSE
    /\ state_file = FileJson(PyDict([golem |-> parse_status_data(MkReport(0, 0, 0), 0)]))
    /\ users_file = FileJson(<< 1 >>)
    /\ disk = "sound"
    /\ now = 0
    /\ ps = PsIdle
    /\ reply = NoReply
    /\ write_faults = 0
    /\ MemoryInit
    /\ hist = NoHistory
    /\ dc = DcIdle

\* what run_golemsp_status returns to a command: a failure, an empty
\* report, or a report with a task in progress, a task processed and a
\* balance
CommandOutcomes ==
    {[success |-> FALSE, output |-> PyNone],
     [success |-> TRUE, output |-> PyReport(<< >>)],
     [success |-> TRUE, output |-> MkReport(1, 1, 2 * EPSILON)]}

NextCommands ==
    \/ Next
    \/ \E u \in Users, what \in {"status", "all"}, check \in CommandOutcomes :
          CheckNow(u, what, check)

SpecCommands == InitCommands /\ [][NextCommands]_vars

(***************************************************************************)
(* Crashes, with the history of the reports and of the deliveries          *)
(***************************************************************************)
\* a counter of a snapshot as the node reported it, 0 when it is not there
CounterOf(snapshot, sub, key, default) ==
    IF IsDict(snapshot) /\ IsDict(Get(snapshot, sub, EmptyDict))
    THEN GetGet(snapshot, sub, key, default).v
    ELSE default.v

\* the kinds of change between report before and the report after that follows it
RisesBetween(before, after) ==
    {k \in Kinds :
        \/ k = "new_jobs"
           /\ CounterOf(after, "tasks", "in_progress", PyInt(0))
                > CounterOf(before, "tasks", "in_progress", PyInt(0))
        \/ k = "completed_jobs"
           /\ CounterOf(after, "tasks", "total_processed", PyInt(0))
                > CounterOf(before, "tasks", "total_processed", PyInt(0))
        \/ k = "payment_received"
           /\ CounterOf(after, "wallet", "total_glm", PyFloat(0))
                - CounterOf(before, "wallet", "total_glm", PyFloat(0)) > EPSILON}

\* the state is loaded: memory holds the report the file holds
LoadH ==
    /\ Load
    /\ hist' = [hist EXCEPT !.mem = IF IsDict(previous_state')
                                       /\ "golem" \in DOMAIN previous_state'.v
                                    THEN hist.disk ELSE 0]

\* a cycle: a status check that succeeds yields the next report of the node
PollH(check, rr, ar) ==
    /\ check.success => hist.n < MaxPolls
    /\ Poll(check, rr, ar)
    /\ hist' = IF MONITORING_ENABLED /\ check.success
               THEN [hist EXCEPT
                        !.n = hist.n + 1,
                        !.last = cyc'.golem_current,
                        !.rises = [k \in Kinds |->
                                     IF hist.n >= 1
                                        /\ k \in RisesBetween(hist.last, cyc'.golem_current)
                                     THEN hist.rises[k] \cup {hist.n + 1}
                                     ELSE hist.rises[k]],
                        !.from = hist.mem,
                        !.mem = IF cyc'.golem = "ok" THEN hist.n + 1 ELSE hist.mem]
               ELSE [hist EXCEPT !.from = hist.mem]

\* a message the transport accepted tells its subscriber of the changes of
\* its kind between the report the cycle compared with and the current one
DeliverH(accepted) ==
    /\ Deliver(accepted)
    /\ LET m == notification_messages[msg_ix]
           J == {j \in (hist.from + 1)..hist.n : j \in hist.rises[m.kind]}
       IN  IF accepted /\ m.platform = "golem"
           THEN hist' = [hist EXCEPT
                            !.twice = @ \cup {<<chat_id, m.kind, j>> :
                                                j \in J \cap hist.told[chat_id][m.kind]},
                            !.told[chat_id][m.kind] = @ \cup J]
           ELSE UNCHANGED hist

\* the state is written: the file holds the report memory holds
SaveH ==
    /\ Save
    /\ hist' = [hist EXCEPT !.disk = IF state_file' = FileJson(previous_state') THEN hist.mem
                                     ELSE IF state_file' = state_file THEN hist.disk
                                     ELSE 0]

\* the process ends at any point (a kill, a power cut, an uncaught error of
\* the runtime): memory is lost
Lost ==
    /\ proc = "up"
    /\ proc' = "off"
    /\ registered_users' = {}
    /\ other_tasks' = 0
    /\ pc' = "none"
    /\ previous_state' = EmptyDict
    /\ previous_render_state' = EmptyDict
    /\ previous_ai_state' = EmptyDict
    /\ notification_messages' = << >>
    /\ users_copy' = {}
    /\ chat_id' = 0
    /\ msg_ix' = 0
    /\ fresh' = {}
    /\ cyc' = NoCycle
    /\ attempts' = NoAttempts

\* the files stay as they are
Kill == Lost /\ UNCHANGED << config, ps, reply, files, now, dc >>

Crash == Kill /\ hist' = [hist EXCEPT !.mem = 0, !.from = 0]

\* one node, monitored from a first start without files
InitCrash ==
    /\ MONITORING_ENABLED = TRUE
    /\ RENDER_NETWORK_ENABLED = FALSE
    /\ AI_TRAINING_ENABLED = FALSE
    /\ state_file = FileMissing
    /\ users_file = FileJson(<< 1 >>)
    /\ disk = "failing"
    /\ now = 0
    /\ ps = PsIdle
    /\ reply = NoReply
    /\ write_faults = 0
    /\ MemoryInit
    /\ hist = NoHistory
    /\ dc = DcIdle

NextCrash ==
    \/ Main
    \/ \E u \in Users : Register(u)
    \/ \E u \in Users : Unregister(u)
    \/ StartMonitoring
    \/ LoadH
    \/ BeginCycle
    \/ \E check \in GolemOutcomes : PollH(check, FALSE, FALSE)
    \/ \E accepted \in BOOLEAN : DeliverH(accepted)
    \/ SaveH
    \/ Sleep
    \/ Crash

SpecCrash == InitCrash /\ [][NextCrash]_vars

(***************************************************************************)
(* One process lifetime, with the history of the reports and of the        *)
(* deliveries: the process is started once and never ends, its subscriber   *)
(* stays registered                                                         *)
(***************************************************************************)
InitLife ==
    /\ MONITORING_ENABLED = TRUE
    /\ RENDER_NETWORK_ENABLED \in BOOLEAN
    /\ AI_TRAINING_ENABLED = FALSE
    /\ state_file \in {FileMissing,
                       FileJson(PyDict([golem |-> parse_status_data(MkReport(0, 0, 0), 0),
                                        render |-> PyList(<< >>)]))}
    /\ users_file = FileJson(<< 1 >>)
    /\ disk = "sound"
    /\ now = 0
    /\ ps = PsIdle
    /\ reply = NoReply
    /\ write_faults = 0
    /\ MemoryInit
    /\ hist = NoHistory
    /\ dc = DcIdle

NextLife ==
    \/ Main
    \/ StartMonitoring
    \/ LoadH
    \/ BeginCycle
    \/ \E check \in GolemOutcomes, rr \in WorkerStates(RENDER_NETWORK_ENABLED) :
          PollH(check, rr, FALSE)
    \/ \E accepted \in BOOLEAN : DeliverH(accepted)
    \/ SaveH
    \/ Sleep

SpecLife == InitLife /\ [][NextLife]_vars

(***************************************************************************)
(* detect_changes alone, over snapshots of every shape the parser builds   *)
(***************************************************************************)
\* the counters of the snapshots are 0..MaxCount
MaxCount == 2

\* the balances of the snapshots, around the threshold
Balances == {0, EPSILON - 1, EPSILON, EPSILON + 1, 2 * EPSILON + 1}

\* a snapshot parse_status_data builds of a report that prints the three values
Snapshot(in_progress, total_processed, total_glm) ==
    PyDict([timestamp |-> PyTime(0),
            service |-> EmptyDict,
            wallet |-> PyDict([total_glm |-> PyFloat(total_glm)]),
            tasks |-> PyDict([in_progress |-> PyInt(in_progress),
                              total_processed |-> PyInt(total_processed)])])

\* the snapshots: of full reports, and of a report no line of which parses
Snapshots ==
    {Snapshot(ip, tp, bal) : ip \in 0..MaxCount, tp \in 0..MaxCount, bal \in Balances}
        \cup {NewData(0)}

\* what previous_state.get('golem', {}) can be beside a snapshot
Absent == {PyNone, EmptyDict}

InitDetect ==
    /\ MONITORING_ENABLED = TRUE
    /\ RENDER_NETWORK_ENABLED = FALSE
    /\ AI_TRAINING_ENABLED = FALSE
    /\ state_file = FileMissing
    /\ users_file = FileMissing
    /\ disk = "sound"
    /\ now = 0
    /\ ps = PsIdle
    /\ reply = NoReply
    /\ write_faults = 0
    /\ MemoryInit
    /\ hist = NoHistory
    /\ \E current_data \in Snapshots, previous_data \in Snapshots \cup Absent :
          dc = [phase |-> "called", current_data |-> current_data,
                previous_data |-> previous_data]

\* bot.py 787-817: detect_changes is applied and the messages for one
\* subscriber are built of its result
Detect ==
    /\ dc.phase = "called"
    /\ \E changes \in {detect_changes(dc.current_data, dc.previous_data)} :
          dc' = [phase |-> "returned", current_data |-> dc.current_data,
                 previous_data |-> dc.previous_data, changes |-> changes,
                 msgs |-> GolemMessages(dc.current_data, dc.previous_data, changes, {1})]
    /\ UNCHANGED << config, ps, reply, other_tasks, files, now, proc, registered_users, pc, locals, history, hist >>

NextDetect == Detect

SpecDetect == InitDetect /\ [][NextDetect]_vars

(***************************************************************************)
(* parse_status_data alone, over report texts built of the lines a status  *)
(* command prints and of lines it could print                              *)
(***************************************************************************)
\* the reports have up to MaxLines lines
MaxLines == 3

\* lines with a known label whose value does not convert, and a line no
\* branch of the parser has a label for
BadLines ==
    { << W("total processed"), W("n/a") >>,
      << W("pending"), W("GLM") >>,
      << W("uptime"), W("StatusOK") >> }

\* the lines of the reports: the three headers (bare and between horizontal
\* borders), label/value lines with converting values (a negative one of
\* each type among them), a node name that holds a section name, BadLines
ReportLines ==
    { << W("Status") >>,
      << W("MOJI_H"), W("Wallet"), W("MOJI_H") >>,
      << W("Tasks") >>,
      << W("Node Name"), W("Wallet-node") >>,
      << W("Subnet"), W("public") >>,
      << W("amount (total)"), F(15), W("GLM") >>,
      << W("pending"), F(-5), W("GLM") >>,
      << W("total processed"), I(2) >>,
      << W("total processed"), I(-1) >> } \cup BadLines

\* the values of status_output: None, "" and the texts of 1..MaxLines lines
ReportTexts ==
    {PyNone} \cup
    {PyReport(lines) : lines \in UNION {[1..n -> ReportLines] : n \in 0..MaxLines}}

\* the text without its BadLines
WithoutBadLines(status_output) ==
    IF status_output.t = "report"
    THEN PyReport(SelectSeq(status_output.v, LAMBDA line : line \notin BadLines))
    ELSE status_output

(***************************************************************************)
(* The formatters (bot.py 397-668).  A message is the list message_parts   *)
(* that is joined with newlines: titles, "label: value" lines, blank lines  *)
(* and the footer.                                                          *)
(***************************************************************************)
\* f"`{x}`"
Quoted(x) == [t |-> "quoted", v |-> x]

Title(s) == [title |-> s]
Line(label, value) == [label |-> label, value |-> value]
Blank == [blank |-> TRUE]
\* the footer, with datetime.now() of instant ts
Footer(ts) == [updated |-> PyTime(ts)]

\* the return value of a formatter of a falsy status_output
NoOutput == PyStr("No status output received.")
PyMessage(message_parts) == [t |-> "message", v |-> message_parts]

\* the three info dicts, empty
NoInfo == PyDict([service |-> EmptyDict, wallet |-> EmptyDict, tasks |-> EmptyDict])

\* the header tests of a formatter that looks for the section names in
\* names, in the order of the code (bot.py 427-435, 540, 592, 641)
FormatHeaderOf(line, cleaned, names) ==
    IF "status" \in names /\ HasSub(cleaned, "Status")
          /\ (HasSub(line, "MOJI_H") \/ HasSub(cleaned, "Status"))
    THEN "status"
    ELSE IF "wallet" \in names /\ HasSub(cleaned, "Wallet")
          /\ (HasSub(line, "MOJI_H") \/ HasSub(cleaned, "Wallet"))
    THEN "wallet"
    ELSE IF "tasks" \in names /\ HasSub(cleaned, "Tasks")
          /\ (HasSub(line, "MOJI_H") \/ HasSub(cleaned, "Tasks"))
    THEN "tasks"
    ELSE ""

\* bot.py 443-452 (and 548-557)
FormatStatusLine(cleaned, info) ==
    IF HasSub(cleaned, "Service") /\ HasSub(cleaned, "running")
    THEN SetField(info, "service", "status", PyStr("Running"))
    ELSE IF HasSub(cleaned, "Version") /\ HasDigit(cleaned)
    THEN SetField(info, "service", "version", PyText(AfterLast(cleaned, "Version")))
    ELSE IF HasSub(cleaned, "Node Name")
    THEN SetField(info, "service", "node_name", PyText(AfterLast(cleaned, "Node Name")))
    ELSE IF HasSub(cleaned, "Subnet")
    THEN SetField(info, "service", "subnet", PyText(AfterLast(cleaned, "Subnet")))
    ELSE IF HasSub(cleaned, "VM") /\ HasSub(cleaned, "invalid environment")
    THEN SetField(info, "service", "vm", PyStr("Invalid Environment (Docker)"))
    ELSE info

\* bot.py 456-463 (and 600-607)
FormatWalletLine(cleaned, info) ==
    IF StartsWith(cleaned, "0x") /\ LineLen(cleaned) > 10
    THEN SetField(info, "wallet", "address", Quoted(PyText(cleaned)))
    ELSE IF HasSub(cleaned, "network") /\ HasSub(cleaned, "mainnet")
    THEN SetField(info, "wallet", "network", PyStr("Mainnet"))
    ELSE IF HasSub(cleaned, "amount (total)")
    THEN SetField(info, "wallet", "total", PyText(AfterLast(cleaned, "amount (total)")))
    ELSE IF StartsWith(cleaned, "pending") /\ HasSub(cleaned, "GLM")
    THEN SetField(info, "wallet", "pending", PyText(AfterLast(cleaned, "pending")))
    ELSE info

\* bot.py 467-472 (and 649-654)
FormatTasksLine(cleaned, info) ==
    IF HasSub(cleaned, "last 1h processed")
    THEN SetField(info, "tasks", "last_hour", PyText(AfterLast(cleaned, "last 1h processed")))
    ELSE IF HasSub(cleaned, "last 1h in progress")
    THEN SetField(info, "tasks", "in_progress", PyText(AfterLast(cleaned, "last 1h in progress")))
    ELSE IF HasSub(cleaned, "total processed")
    THEN SetField(info, "tasks", "total", PyText(AfterLast(cleaned, "total processed")))
    ELSE info

\* one iteration of the loop over the lines of a formatter that looks for
\* the section names in names: st = [section, info]
FormatLine(line, st, names) ==
    LET cleaned == CleanLine(line)
        header == FormatHeaderOf(line, cleaned, names)
    IN  IF Len(cleaned) = 0 THEN st
        ELSE IF header # "" THEN [section |-> header, info |-> st.info]
        ELSE IF IsSeparator(line) THEN st
        ELSE IF st.section = "status"
        THEN [section |-> st.section, info |-> FormatStatusLine(cleaned, st.info)]
        ELSE IF st.section = "wallet"
        THEN [section |-> st.section, info |-> FormatWalletLine(cleaned, st.info)]
        ELSE IF st.section = "tasks"
        THEN [section |-> st.section, info |-> FormatTasksLine(cleaned, st.info)]
        ELSE st

RECURSIVE FormatLines(_, _, _)
FormatLines(lines, st, names) ==
    IF Len(lines) = 0 THEN st
    ELSE FormatLines(Tail(lines), FormatLine(Head(lines), st, names), names)

\* the info dicts the loop of a formatter leaves
InfoOf(status_output, names) ==
    FormatLines(status_output.v, [section |-> "", info |-> NoInfo], names).info

\* message_parts.append(...) under "if key in info"
Shown(info, key, part) == IF key \in DOMAIN info.v THEN << part >> ELSE << >>

\* bot.py 483-491 (and 560-568)
ServiceLines(service_info) ==
    << Line("Status", Get(service_info, "status", PyStr("Unknown"))) >>
        \o Shown(service_info, "version", Line("Version", Quoted(Get(service_info, "version", PyNone))))
        \o Shown(service_info, "node_name", Line("Node", Quoted(Get(service_info, "node_name", PyNone))))
        \o Shown(service_info, "subnet", Line("Subnet", Quoted(Get(service_info, "subnet", PyNone))))
        \o Shown(service_info, "vm", Line("VM Status", Get(service_info, "vm", PyNone)))

\* bot.py 497-504 (and 610-617)
WalletLines(wallet_info) ==
    Shown(wallet_info, "address", Line("Address", Get(wallet_info, "address", PyNone)))
        \o Shown(wallet_info, "network", Line("Network", Get(wallet_info, "network", PyNone)))
        \o Shown(wallet_info, "total", Line("Balance", Quoted(Get(wallet_info, "total", PyNone))))
        \o Shown(wallet_info, "pending", Line("Pending", Quoted(Get(wallet_info, "pending", PyNone))))

\* bot.py 510-515 (and 657-662)
TasksLines(tasks_info) ==
    Shown(tasks_info, "last_hour", Line("Last Hour Processed", Quoted(Get(tasks_info, "last_hour", PyNone))))
        \o Shown(tasks_info, "in_progress", Line("Currently In Progress", Quoted(Get(tasks_info, "in_progress", PyNone))))
        \o Shown(tasks_info, "total", Line("Total Processed", Quoted(Get(tasks_info, "total", PyNone))))

\* format_status_message(status_output) run at instant ts (bot.py 397-522)
format_status_message(status_output, ts) ==
    IF ~Truthy(status_output)
    THEN NoOutput
    ELSE LET info == InfoOf(status_output, {"status", "wallet", "tasks"})
         IN  PyMessage(
                << Title("GolemSP Status Dashboard") >>
                \o (IF Truthy(info.v.service)
                    THEN << Title("Service Information") >> \o ServiceLines(info.v.service)
                            \o << Blank >>
                    ELSE << >>)
                \o (IF Truthy(info.v.wallet)
                    THEN << Title("Wallet Information") >> \o WalletLines(info.v.wallet)
                            \o << Blank >>
                    ELSE << >>)
                \o (IF Truthy(info.v.tasks)
                    THEN << Title("Task Statistics") >> \o TasksLines(info.v.tasks)
                    ELSE << >>)
                \o << Footer(ts) >>)

\* format_status_section(status_output) run at instant ts (bot.py 525-574)
format_status_section(status_output, ts) ==
    IF ~Truthy(status_output)
    THEN NoOutput
    ELSE PyMessage(<< Title("Service Information") >>
                      \o ServiceLines(InfoOf(status_output, {"status"}).v.service)
                      \o << Footer(ts) >>)

\* format_wallet_section(status_output) run at instant ts (bot.py 577-623)
format_wallet_section(status_output, ts) ==
    IF ~Truthy(status_output)
    THEN NoOutput
    ELSE PyMessage(<< Title("Wallet Information") >>
                      \o WalletLines(InfoOf(status_output, {"wallet"}).v.wallet)
                      \o << Footer(ts) >>)

\* format_tasks_section(status_output) run at instant ts (bot.py 626-668)
format_tasks_section(status_output, ts) ==
    IF ~Truthy(status_output)
    THEN NoOutput
    ELSE PyMessage(<< Title("Task Statistics") >>
                      \o TasksLines(InfoOf(status_output, {"tasks"}).v.tasks)
                      \o << Footer(ts) >>)

InitParse ==
    /\ MONITORING_ENABLED = TRUE
    /\ RENDER_NETWORK_ENABLED = FALSE
    /\ AI_TRAINING_ENABLED = FALSE
    /\ state_file = FileMissing
    /\ users_file = FileMissing
    /\ disk = "sound"
    /\ now = 0
    /\ reply = NoReply
    /\ write_faults = 0
    /\ MemoryInit
    /\ hist = NoHistory
    /\ dc = DcIdle
    /\ \E status_output \in ReportTexts :
          ps = [phase |-> "called", status_output |-> status_output]

\* parse_status_data(status_output) is called at instant now, called once
\* more with the same text at that instant or a later one, and called with
\* the text without its BadLines
Parse ==
    /\ ps.phase = "called"
    /\ \E later \in now..MaxTime :
          /\ ps' = [phase |-> "parsed", status_output |-> ps.status_output,
                    data |-> parse_status_data(ps.status_output, now),
                    again |-> parse_status_data(ps.status_output, later),
                    without |-> parse_status_data(WithoutBadLines(ps.status_output), now)]
          /\ now' = later
    /\ UNCHANGED << config, reply, other_tasks, files, proc, registered_users, pc, locals, history, hist, dc >>

\* the four formatters are applied to the text at instant now
Format ==
    /\ ps.phase = "called"
    /\ ps' = [phase |-> "formatted", status_output |-> ps.status_output,
              message |-> format_status_message(ps.status_output, now),
              status |-> format_status_section(ps.status_output, now),
              wallet |-> format_wallet_section(ps.status_output, now),
              tasks |-> format_tasks_section(ps.status_output, now)]
    /\ UNCHANGED << config, reply, other_tasks, files, now, proc, registered_users, pc, locals, history, hist, dc >>

NextParse == Parse \/ Format

SpecParse == InitParse /\ [][NextParse]_vars

(***************************************************************************)
(* The program as main starts it (bot.py 1231-1271): the users are loaded,  *)
(* the command handlers are added and the application runs.  main holds no *)
(* call of start_monitoring and registers no start-up hook, so the only    *)
(* steps of the process are the commands.  The process may end at any     *)
(* point and be started again.  The history records, across restarts, the  *)
(* last command about each chat id (acts), whether every write of the      *)
(* users file so far succeeded (ok), whether the process has ended before  *)
(* (ended) and was started again with no command since (reloaded), the     *)
(* registry memory held when the process last ended (before) and the chat  *)
(* id whose command that end cut short (cut, 0 for none).                  *)
(***************************************************************************)
\* chat ids of the registry commands are 1..MaxIds
MaxIds == 2
Ids == 1..MaxIds

\* the users files a process may find at its start: none, an unparseable
\* one, a list, and a hand-edited list that names a chat id twice
InitialUsersFiles ==
    {FileMissing, FileCorrupt, FileJson(<< 1 >>), FileJson(<< 1, 1 >>)}

InitMain ==
    /\ MONITORING_ENABLED \in BOOLEAN
    /\ RENDER_NETWORK_ENABLED = FALSE
    /\ AI_TRAINING_ENABLED = FALSE
    /\ state_file = FileMissing
    /\ users_file \in InitialUsersFiles
    /\ disk \in {"sound", "failing"}
    /\ now = 0
    /\ ps = PsIdle
    /\ reply = NoReply
    /\ write_faults = 0
    /\ MemoryInit
    /\ hist = [NoHistory EXCEPT !.acts = [id \in Ids |-> "none"]]
    /\ dc = DcIdle

\* the write of the users file a command made succeeded
Persisted == write_faults' = write_faults

MainR ==
    /\ main
    /\ hist' = [hist EXCEPT !.reloaded = hist.ended]

RegisterR(u) ==
    /\ register_user(u)
    /\ hist' = [hist EXCEPT !.acts[u] = "register", !.ok = hist.ok /\ Persisted,
                            !.reloaded = FALSE]

UnregisterR(u) ==
    /\ unregister_user(u)
    /\ hist' = [hist EXCEPT !.acts[u] = "unregister", !.ok = hist.ok /\ Persisted,
                            !.reloaded = FALSE]

\* the process ends between two commands
CrashR ==
    /\ Kill
    /\ hist' = [hist EXCEPT !.ended = TRUE, !.reloaded = FALSE,
                            !.before = registered_users, !.cut = 0]

\* the process ends inside register_user or unregister_user, after the
\* set was changed (bot.py 238, 250) and before save_registered_users has
\* returned: before open() (the file is untouched), or after open() has
\* truncated the file and before the dump is complete (bot.py 225-226)
CrashInMutation(u, add) ==
    /\ Lost
    /\ ~Blocked
    /\ users_file' \in {users_file, FileCorrupt}
    /\ hist' = [hist EXCEPT !.acts[u] = IF add THEN "register" ELSE "unregister",
                            !.ok = FALSE, !.ended = TRUE, !.reloaded = FALSE,
                            !.before = IF add THEN registered_users \cup {u}
                                       ELSE registered_users \ {u},
                            !.cut = u]
    /\ UNCHANGED << config, ps, reply, state_file, write_faults, now, dc >>

NextMain ==
    \/ MainR
    \/ \E u \in Ids : RegisterR(u)
    \/ \E u \in Ids : UnregisterR(u)
    \/ CrashR
    \/ \E u \in Ids, add \in BOOLEAN : CrashInMutation(u, add)

\* the program is started, and started again when it has ended: whoever
\* starts it (a shell, a container runtime) runs main to the point where
\* the application polls for commands
SpecMain == InitMain /\ [][NextMain]_vars /\ WF_vars(MainR)

(***************************************************************************)
(* Properties                                                              *)
(***************************************************************************)
\* the indices of the messages of platform p the cycle built
MessagesOf(p) ==
    {i \in 1..Len(notification_messages) : notification_messages[i].platform = p}

\* the number of sends of a message of the primary node's flag k to chat id u
SendsOf(u, k) ==
    Cardinality({j \in 1..Len(attempts[u]) :
                    /\ notification_messages[attempts[u][j]].platform = "golem"
                    /\ notification_messages[attempts[u][j]].kind = k})

\* the stored previous snapshot of platform p
StoredOf(p) ==
    IF p = "golem" THEN Get(previous_state, "golem", EmptyDict)
    ELSE IF p = "render" THEN previous_render_state
    ELSE previous_ai_state

\* the snapshot the cycle parsed for platform p
ParsedOf(p) ==
    IF p = "golem" THEN cyc.golem_current
    ELSE IF p = "render" THEN cyc.render_current
    ELSE cyc.ai_current

\* the status check of platform p succeeded in the cycle
CheckedOf(p) == cyc[p] \in {"ok", "raised"}

\* the cycle is over: the loop is at its wait
CycleOver == pc = "sleep"

\* C1: whatever the cycles, the outcomes of the writes and the crashes and
\* restarts, no change between two consecutive reports of the node is delivered
\* to the same subscriber twice
C1_AtMostOnce == hist.twice = {}

\* C2: after a cycle in which the primary node's status check failed, its stored
\* snapshot is the one it was, the cycle built no message for it, and every
\* other platform whose check succeeded has its new snapshot stored and its
\* messages sent to every subscriber
C2_FailedCheckLeavesRest ==
    (CycleOver /\ cyc.golem = "fail") =>
        /\ StoredOf("golem") = cyc.golem_previous
        /\ MessagesOf("golem") = {}
        /\ \A p \in {"render", "ai_training"} :
              CheckedOf(p) =>
                 /\ StoredOf(p) = ParsedOf(p)
                 /\ \A u \in cyc.users, i \in MessagesOf(p) :
                       \E j \in 1..Len(attempts[u]) : attempts[u][j] = i

\* C3: after a cycle in which the processing of one platform raised, the loop
\* is at its wait, no other platform was left out, every other platform whose
\* check succeeded has its new snapshot stored, and the state was written
C3_ExceptionIsolated ==
    (CycleOver /\ \E p \in Platforms : cyc[p] = "raised") =>
        /\ \A q \in Platforms : cyc[q] # "skipped"
        /\ \A q \in Platforms : cyc[q] = "ok" => StoredOf(q) = ParsedOf(q)
        /\ cyc.saved # "no"

\* C4: after a cycle, when a flag of the ChangeSet is set and there are
\* subscribers, each subscriber was sent one message for each flag that is set
\* and none for a flag that is not; when no flag is set or there is no
\* subscriber, nothing was sent about the node
C4_OnePerSubscriberAndFlag ==
    CycleOver =>
        IF cyc.flags # {} /\ cyc.users # {}
        THEN \A u \in cyc.users, k \in Kinds :
                SendsOf(u, k) = (IF k \in cyc.flags THEN 1 ELSE 0)
        ELSE \A u \in Users, k \in Kinds : SendsOf(u, k) = 0

\* C5: after a cycle in which the check of a platform succeeded, the snapshot
\* just parsed is the stored previous snapshot of the platform and the state
\* was written; if the write succeeded the file holds that snapshot too
C5_SnapshotStoredAndPersisted ==
    CycleOver =>
        \A p \in Platforms :
            CheckedOf(p) =>
               /\ StoredOf(p) = ParsedOf(p)
               /\ cyc.saved # "no"
               /\ cyc.saved = "ok" =>
                     /\ state_file.kind = "json"
                     /\ Get(state_file.doc, p, EmptyDict) = ParsedOf(p)

\* C6: whatever the state file holds at the start, the monitoring task does not
\* end at the load, and after a cycle in which the node's check succeeded the
\* stored snapshot of the node is the one just parsed
C6_InvalidStateDegrades ==
    /\ pc # "dead"
    /\ (CycleOver /\ CheckedOf("golem")) => StoredOf("golem") = cyc.golem_current

\* C7: the cycle that polls a platform for the first time after a start without
\* a stored snapshot of it builds no message for that platform
C7_FirstPollSilent ==
    \A p \in cyc.first : MessagesOf(p) = {}

\* C7 witness: a cycle with a subscriber polled the node and the Render platform
\* for the first time, the node reporting a task in progress
C7_Witness ==
    /\ {"golem", "render"} \subseteq cyc.first
    /\ cyc.users # {}
    /\ CounterOf(cyc.golem_current, "tasks", "in_progress", PyInt(0)) > 0
    /\ cyc.render = "ok"

\* C8: detect_changes given None or an empty previous snapshot returns no flag
\* and a balance change of 0, whatever the current snapshot
C8_NoPriorNeutral ==
    (dc.phase = "returned" /\ dc.previous_data \in Absent) =>
        /\ ~dc.changes.new_jobs
        /\ ~dc.changes.completed_jobs
        /\ ~dc.changes.payment_received
        /\ dc.changes.wallet_balance_change = 0

\* C8 witness: detect_changes returned for an empty previous snapshot and a
\* current one with tasks in progress, tasks processed and a balance
C8_Witness ==
    /\ dc.phase = "returned"
    /\ dc.previous_data = EmptyDict
    /\ CounterOf(dc.current_data, "tasks", "in_progress", PyInt(0)) > 0
    /\ CounterOf(dc.current_data, "tasks", "total_processed", PyInt(0)) > 0
    /\ CounterOf(dc.current_data, "wallet", "total_glm", PyFloat(0)) > EPSILON

\* C9: given a previous snapshot, new_jobs is set exactly when the current
\* count of tasks in progress is greater than the previous one, and then the one
\* message about new tasks reports the current count minus the previous one
C9_NewJobs ==
    (dc.phase = "returned" /\ Truthy(dc.previous_data)) =>
        LET current == CounterOf(dc.current_data, "tasks", "in_progress", PyInt(0))
            previous == CounterOf(dc.previous_data, "tasks", "in_progress", PyInt(0))
            told == {i \in 1..Len(dc.msgs) : dc.msgs[i].kind = "new_jobs"}
        IN  /\ dc.changes.new_jobs <=> current > previous
            /\ IF current > previous
               THEN \E i \in told : told = {i} /\ dc.msgs[i].count = current - previous
               ELSE told = {}

\* C9 witness: detect_changes returned for a previous snapshot with no task in
\* progress and a current one with two
C9_Witness ==
    /\ dc.phase = "returned"
    /\ Truthy(dc.previous_data)
    /\ CounterOf(dc.previous_data, "tasks", "in_progress", PyInt(0)) = 0
    /\ CounterOf(dc.current_data, "tasks", "in_progress", PyInt(0)) = 2
    /\ dc.changes.new_jobs

\* C10: given a previous snapshot whose total of processed tasks is at most the
\* current one, completed_jobs is set exactly when the current total is greater,
\* and then the one message about completed tasks reports the difference
C10_CompletedJobs ==
    LET current == CounterOf(dc.current_data, "tasks", "total_processed", PyInt(0))
        previous == CounterOf(dc.previous_data, "tasks", "total_processed", PyInt(0))
        told == {i \in 1..Len(dc.msgs) : dc.msgs[i].kind = "completed_jobs"}
    IN  (dc.phase = "returned" /\ Truthy(dc.previous_data) /\ current >= previous) =>
            /\ dc.changes.completed_jobs <=> current > previous
            /\ IF current > previous
               THEN \E i \in told : told = {i} /\ dc.msgs[i].count = current - previous
               ELSE told = {}

\* C10 witness: detect_changes returned for a previous snapshot with one task
\* processed and a current one with two
C10_Witness ==
    /\ dc.phase = "returned"
    /\ Truthy(dc.previous_data)
    /\ CounterOf(dc.previous_data, "tasks", "total_processed", PyInt(0)) = 1
    /\ CounterOf(dc.current_data, "tasks", "total_processed", PyInt(0)) = 2
    /\ dc.changes.completed_jobs

C12_DecreasesSilent ==
    dc.phase = "returned" =>
        LET lower(sub, key, default) ==
                CounterOf(dc.current_data, sub, key, default)
                    < CounterOf(dc.previous_data, sub, key, default)
            told(kind) == {i \in 1..Len(dc.msgs) : dc.msgs[i].kind = kind}
        IN  /\ lower("tasks", "in_progress", PyInt(0)) =>
                  ~dc.changes.new_jobs /\ told("new_jobs") = {}
            /\ lower("tasks", "total_processed", PyInt(0)) =>
                  ~dc.changes.completed_jobs /\ told("completed_jobs") = {}
            /\ lower("wallet", "total_glm", PyFloat(0)) =>
                  /\ ~dc.changes.payment_received
                  /\ dc.changes.wallet_balance_change <= 0
                  /\ told("payment_received") = {}

\* C12 witness: detect_changes returned for a previous snapshot and a current
\* one in which the three quantities are all lower
C12_Witness ==
    /\ dc.phase = "returned"
    /\ Truthy(dc.previous_data)
    /\ CounterOf(dc.current_data, "tasks", "in_progress", PyInt(0))
         < CounterOf(dc.previous_data, "tasks", "in_progress", PyInt(0))
    /\ CounterOf(dc.current_data, "tasks", "total_processed", PyInt(0))
         < CounterOf(dc.previous_data, "tasks", "total_processed", PyInt(0))
    /\ CounterOf(dc.current_data, "wallet", "total_glm", PyFloat(0))
         < CounterOf(dc.previous_data, "wallet", "total_glm", PyFloat(0))

\* C13: when monitoring is enabled, starting the program leads to a created
\* scheduler task (so that a first poll cycle can run beside the commands);
\* when monitoring is disabled no scheduler task is ever created.
C13_MainStartsScheduler ==
    /\ (proc = "up" /\ MONITORING_ENABLED) ~> (pc # "none")
    /\ [](~MONITORING_ENABLED => pc \in {"none", "unscheduled"})

\* C14: however often the scheduler is started, at most one monitoring loop
\* runs in the process (no two pollers of one platform at a time).
C14_OnePoller == ActiveLoops <= 1

\* C15: whenever the scheduler waits for the result of the external status
\* check or for a notification delivery, a user command (register,
\* unregister) can be processed before that wait ends.
C15_CommandsNotBlocked ==
    (proc = "up" /\ pc \in {"check", "notify"})
        => \A u \in Users : ENABLED Register(u) /\ ENABLED Unregister(u)

\* C16: the loop stops only at the head of a cycle, where it reads the flag
\* and finds it false, and then without a poll; a cycle that has begun is
\* never cut short: from its poll it goes on to its deliveries or its
\* persist step, and from its deliveries to its persist step.
C16_StartedCycleCompletes ==
    [][/\ (pc' = "stopped" /\ pc # "stopped") => (pc = "top" /\ ~MONITORING_ENABLED)
       /\ (pc = "top" /\ pc' # "top") => (pc' = "stopped" <=> ~MONITORING_ENABLED)
       /\ (pc = "check" /\ pc' # "check") => pc' \in {"notify", "save"}
       /\ (pc = "notify" /\ pc' # "notify") => pc' = "save"]_vars

\* C17: the loop moves only along Idle, Polling (with Comparing), Notifying,
\* Persisting, Idle: it polls from the idle head of a cycle, persists only
\* when every delivery of the cycle has been attempted, waits between the
\* persist step and the next poll, and leaves the cycle only from the idle
\* head, to Stopped, when monitoring is disabled.
C17_PhaseOrder ==
    [][pc' # pc =>
        \/ pc = "none"
        \/ pc = "start" /\ pc' = "top"
        \/ pc = "top" /\ pc' = (IF MONITORING_ENABLED THEN "check" ELSE "stopped")
        \/ pc = "check" /\ pc' \in {"notify", "save"}
        \/ /\ pc = "notify" /\ pc' = "save"
           /\ \A u \in cyc.users : Len(attempts'[u]) = Len(notification_messages)
        \/ pc = "save" /\ pc' = "sleep"
        \/ pc = "sleep" /\ pc' = "top"]_vars

\* C18: after register and unregister commands whose writes all succeeded
\* and a restart that reloads the users file, a chat id that a command named
\* is registered exactly when the last command about it was a register, and
\* the document holds each such id once.
C18_RegistrySurvivesRestart ==
    (proc = "up" /\ hist.reloaded /\ hist.ok)
        => \A id \in Ids :
              /\ hist.acts[id] = "register"
                    => /\ id \in registered_users
                       /\ users_file.kind = "json"
                       /\ Cardinality({i \in DOMAIN users_file.doc :
                                          users_file.doc[i] = id}) = 1
              /\ hist.acts[id] = "unregister" => id \notin registered_users

C18_Witness ==
    /\ proc = "up" /\ hist.reloaded /\ hist.ok
    /\ hist.acts[1] = "unregister" /\ hist.acts[2] = "register"
    /\ registered_users = {2}

\* C19: when the process ends inside a registry command, between the change
\* of the set and the end of its write (the rewrite of the file included),
\* the set loaded at the restart differs from the set memory held at the
\* crash by no chat id other than the one the command was about.
C19_LosesAtMostOne ==
    (proc = "up" /\ hist.reloaded /\ hist.cut # 0)
        => \A id \in Ids \ {hist.cut} :
              id \in registered_users <=> id \in hist.before

PersistedOf(p) ==
    LET doc == load_previous_state(state_file)
    IN  IF IsDict(doc) THEN Get(doc, p, EmptyDict) ELSE EmptyDict

C22_CheckNowChangesNothing ==
    [][(reply' # reply)
          => UNCHANGED << previous_state, previous_render_state, previous_ai_state,
                          state_file, registered_users, users_file,
                          notification_messages, attempts >>]_vars

C22_Witness ==
    /\ pc = "notify"
    /\ reply.chat # 0 /\ ~reply.error
    /\ Truthy(Get(previous_state, "golem", EmptyDict))
    /\ reply.what = "all"
    /\ reply.tasks # GetGet(Get(previous_state, "golem", EmptyDict),
                            "tasks", "in_progress", PyInt(0))

(***************************************************************************)
(* The parser                                                              *)
(***************************************************************************)
\* the three sub-mappings of a snapshot
SubMappings == {"service", "wallet", "tasks"}

\* C23: parsing None or "" yields a snapshot that holds the three sub-mappings
\* service, wallet and tasks, each of them empty
C23_EmptyInputEmptySnapshot ==
    (ps.phase = "parsed" /\ ~Truthy(ps.status_output))
        => (\A sub \in SubMappings :
              sub \in DOMAIN ps.data.v /\ ps.data.v[sub] = EmptyDict)

\* C24: two parses of the same report yield snapshots equal in every field,
\* the timestamp included
C24_ParseTwiceIdentical ==
    (ps.phase = "parsed" /\ Truthy(ps.status_output)) => (ps.again = ps.data)

\* C25: a line whose value does not convert and a line the parser knows no
\* label of leave every field as the text without them gives it (of a text
\* that keeps some line without them)
C25_BadLinesOnlySkipped ==
    (ps.phase = "parsed" /\ Truthy(WithoutBadLines(ps.status_output)))
        => (ps.data = ps.without)

\* the section in force when line k of the report is read
SectionAt(lines, k) ==
    ParseLines(SubSeq(lines, 1, k - 1), [section |-> "", data |-> NewData(0)]).section

\* C26: a label/value line of the status section whose value holds a section
\* name is parsed as a field: the snapshot has the node name it gives
C26_LabelLineIsNoHeader ==
    (ps.phase = "parsed" /\ Truthy(ps.status_output))
        => (\A k \in 1..Len(ps.status_output.v) :
              (/\ ps.status_output.v[k] = << W("Node Name"), W("Wallet-node") >>
               /\ SectionAt(ps.status_output.v, k) = "status")
                  => (Get(Get(ps.data, "service", EmptyDict), "node_name", PyNone)
                          = PyText(<< W("Wallet-node") >>)))

\* C27: the counters and the balances of a snapshot are never negative
C27_NonNegativeValues ==
    (ps.phase = "parsed")
        => (/\ \A key \in {"last_hour_processed", "in_progress", "total_processed"} :
                  /\ Get(Get(ps.data, "tasks", EmptyDict), key, PyInt(0)).t = "int"
                  /\ Get(Get(ps.data, "tasks", EmptyDict), key, PyInt(0)).v >= 0
            /\ \A key \in {"total_glm", "pending_glm"} :
                  Get(Get(ps.data, "wallet", EmptyDict), key, PyFloat(0)).v >= 0)

(***************************************************************************)
(* The formatters                                                          *)
(***************************************************************************)
RECURSIVE LinesFrom(_)
\* the "label: value" lines a list of message parts starts with
LinesFrom(message_parts) ==
    IF Len(message_parts) = 0 \/ "label" \notin DOMAIN Head(message_parts)
    THEN << >>
    ELSE << Head(message_parts) >> \o LinesFrom(Tail(message_parts))

\* the fields and values a message shows under a title, none when it has no
\* such title; the line "Status: Unknown", which stands for a status that
\* was not found, is no field
ShownUnder(message, title) ==
    IF message.t # "message" \/ ~\E k \in 1..Len(message.v) : message.v[k] = Title(title)
    THEN << >>
    ELSE LET k == CHOOSE j \in 1..Len(message.v) : message.v[j] = Title(title)
         IN  SelectSeq(LinesFrom(SubSeq(message.v, k + 1, Len(message.v))),
                       LAMBDA part : part # Line("Status", PyStr("Unknown")))

\* C28: each section formatter shows the fields and values the full
\* formatter shows for its section
C28_SectionFormattersAgree ==
    (ps.phase = "formatted")
        => (/\ ShownUnder(ps.status, "Service Information")
                  = ShownUnder(ps.message, "Service Information")
            /\ ShownUnder(ps.wallet, "Wallet Information")
                  = ShownUnder(ps.message, "Wallet Information")
            /\ ShownUnder(ps.tasks, "Task Statistics")
                  = ShownUnder(ps.message, "Task Statistics"))

(***************************************************************************)
(* Unregistering while a cycle delivers                                    *)
(***************************************************************************)
\* C29: no notification is sent to a chat id that is not registered at that
\* moment (of the sends that follow the short sleep after an earlier send
\* of the cycle, where a command can have been handled)
C29_NoDeliveryAfterUnregister ==
    [][\A u \in Users :
          (Len(attempts'[u]) > Len(attempts[u]) /\ msg_ix > 1)
              => (u \in registered_users)]_vars

(***************************************************************************)
(* Changes between two consecutive successful polls                        *)
(***************************************************************************)
\* C30: after a cycle whose poll of the node succeeded, every kind of change
\* between the report of the preceding successful poll and this one has been
\* sent to every subscriber of the cycle
C30_NoChangeLost ==
    (CycleOver /\ CheckedOf("golem"))
        => (\A k \in Kinds :
              (hist.n \in hist.rises[k])
                  => (\A u \in cyc.users \cap registered_users : SendsOf(u, k) >= 1))

=============================================================================
